---------------------------- MODULE Spec2Model ----------------------------
(***************************************************************************)
(* Model of anagram_finder_with_logging.py: the anagram pipeline           *)
(* clean_text -> get_unique_words -> group_anagrams driven by              *)
(* find_anagrams_in_text.                                                  *)
(*                                                                         *)
(* A Python str is a sequence of Unicode code points (naturals); a Python  *)
(* value passed to find_anagrams_in_text is a record                       *)
(*   [type, items, num]                                                    *)
(* with type the Python type name, items the characters (str) or elements  *)
(* (list) and num the value of an int.                                     *)
(* Logging only observes; it is modelled where it can raise (line 142).    *)
(***************************************************************************)
EXTENDS Integers, Sequences, FiniteSets, TLC

VARIABLES op, text, cleaned_text, words, anagram_groups, result, raised, pc

vars == <<op, text, cleaned_text, words, anagram_groups, result, raised, pc>>

---------------------------------------------------------------------------
(* Bounds of the explored inputs *)

\* longest raw text drawn character by character
MaxLen == 5

\* most words in a text or word list built from Vocabulary
MaxWords == 4

---------------------------------------------------------------------------
(* Characters *)

\* the characters Python treats as whitespace (str.isspace, re \s, split, strip)
Whitespace ==
  (9..13) \cup (28..32) \cup {133, 160, 5760} \cup (8192..8202)
    \cup {8232, 8233, 8239, 8287, 12288}

IsSpace(c) == c \in Whitespace

\* a-z, а-я, ё
LowerLetters == (97..122) \cup (1072..1103) \cup {1105}

\* A-Z, А-Я, Ё
UpperLetters == (65..90) \cup (1040..1071) \cup {1025}

\* the characters kept by the pattern [^a-zA-Zа-яА-ЯёЁ\s] of clean_text
KeptByPattern == LowerLetters \cup UpperLetters \cup Whitespace

\* str.lower() on one character (letters of the pattern; others of the
\* explored alphabet have no case)
lower_char(c) ==
  IF c \in 65..90 THEN c + 32
  ELSE IF c \in 1040..1071 THEN c + 32
  ELSE IF c = 1025 THEN 1105
  ELSE c

\* str.lower()
lower(s) == [i \in 1..Len(s) |-> lower_char(s[i])]

\* re.sub(r'[^a-zA-Zа-яА-ЯёЁ\s]', ' ', text)
re_sub(s) == [i \in 1..Len(s) |-> IF s[i] \in KeptByPattern THEN s[i] ELSE 32]

RECURSIVE lstrip(_)
lstrip(s) ==
  IF s = <<>> THEN <<>>
  ELSE IF IsSpace(Head(s)) THEN lstrip(Tail(s))
  ELSE s

RECURSIVE rstrip(_)
rstrip(s) ==
  IF s = <<>> THEN <<>>
  ELSE IF IsSpace(s[Len(s)]) THEN rstrip(SubSeq(s, 1, Len(s) - 1))
  ELSE s

\* str.strip()
strip(s) == rstrip(lstrip(s))

\* str.split(): maximal runs of non-whitespace characters, in order
RECURSIVE split_from(_, _, _)
split_from(s, i, cur) ==
  IF i > Len(s)
    THEN (IF cur = <<>> THEN <<>> ELSE <<cur>>)
  ELSE IF IsSpace(s[i])
    THEN (IF cur = <<>> THEN split_from(s, i + 1, <<>>)
                        ELSE <<cur>> \o split_from(s, i + 1, <<>>))
  ELSE split_from(s, i + 1, Append(cur, s[i]))

split(s) == split_from(s, 1, <<>>)

\* Python's < on str: lexicographic by code point
str_lt(u, v) ==
  \E i \in 1..(Len(v)) :
    /\ \A j \in 1..(i - 1) : j <= Len(u) /\ u[j] = v[j]
    /\ \/ i > Len(u)
       \/ i <= Len(u) /\ u[i] < v[i]

---------------------------------------------------------------------------
(* Sorting: Python's sorted / list.sort are stable *)

\* insert character c after every element <= c
RECURSIVE insert_char(_, _)
insert_char(c, s) ==
  IF s = <<>> THEN <<c>>
  ELSE IF c < Head(s) THEN <<c>> \o s
  ELSE <<Head(s)>> \o insert_char(c, Tail(s))

\* sorted(word): the characters in ascending code point order
RECURSIVE sorted_chars(_)
sorted_chars(s) ==
  IF s = <<>> THEN <<>>
  ELSE insert_char(s[Len(s)], sorted_chars(SubSeq(s, 1, Len(s) - 1)))

RECURSIVE insert_str(_, _)
insert_str(w, g) ==
  IF g = <<>> THEN <<w>>
  ELSE IF str_lt(w, Head(g)) THEN <<w>> \o g
  ELSE <<Head(g)>> \o insert_str(w, Tail(g))

\* sorted(group): the words in ascending order
RECURSIVE sorted_strs(_)
sorted_strs(g) ==
  IF g = <<>> THEN <<>>
  ELSE insert_str(g[Len(g)], sorted_strs(SubSeq(g, 1, Len(g) - 1)))

RECURSIVE insert_group(_, _)
insert_group(x, r) ==
  IF r = <<>> THEN <<x>>
  ELSE IF str_lt(x[1], Head(r)[1]) THEN <<x>> \o r
  ELSE <<Head(r)>> \o insert_group(x, Tail(r))

\* result.sort(key=lambda x: x[0])
RECURSIVE sort_by_first(_)
sort_by_first(r) ==
  IF r = <<>> THEN <<>>
  ELSE insert_group(r[Len(r)], sort_by_first(SubSeq(r, 1, Len(r) - 1)))

---------------------------------------------------------------------------
(* The functions of the module *)

\* clean_text without .strip()
clean_text_no_strip(s) ==
  IF s = <<>> THEN <<>> ELSE lower(re_sub(s))

\* clean_text
clean_text(s) ==
  IF s = <<>> THEN <<>>
  ELSE strip(lower(re_sub(s)))

\* normalize_word without sorted()
normalize_word_identity(word) == word

\* normalize_word
normalize_word(word) ==
  IF Len(word) <= 1 THEN word
  ELSE sorted_chars(word)

\* the loop of get_unique_words over words[i..], seen being the set of
\* words already appended to unique_words
RECURSIVE unique_loop(_, _, _, _)
unique_loop(ws, i, seen, unique_words) ==
  IF i > Len(ws) THEN unique_words
  ELSE IF Len(ws[i]) > 1
    THEN (IF ws[i] \notin seen
            THEN unique_loop(ws, i + 1, seen \cup {ws[i]}, Append(unique_words, ws[i]))
            ELSE unique_loop(ws, i + 1, seen, unique_words))
  ELSE unique_loop(ws, i + 1, seen, unique_words)

\* the loop without the "word not in seen" test
RECURSIVE unique_loop_no_seen(_, _, _)
unique_loop_no_seen(ws, i, unique_words) ==
  IF i > Len(ws) THEN unique_words
  ELSE IF Len(ws[i]) > 1
    THEN unique_loop_no_seen(ws, i + 1, Append(unique_words, ws[i]))
  ELSE unique_loop_no_seen(ws, i + 1, unique_words)

get_unique_words_no_seen(s) == unique_loop_no_seen(split(s), 1, <<>>)

\* the loop without the "len(word) > 1" test
RECURSIVE unique_loop_keep_short(_, _, _, _)
unique_loop_keep_short(ws, i, seen, unique_words) ==
  IF i > Len(ws) THEN unique_words
  ELSE IF ws[i] \notin seen
    THEN unique_loop_keep_short(ws, i + 1, seen \cup {ws[i]}, Append(unique_words, ws[i]))
  ELSE unique_loop_keep_short(ws, i + 1, seen, unique_words)

get_unique_words_keep_short(s) == unique_loop_keep_short(split(s), 1, {}, <<>>)

\* "return words" in place of "return unique_words"
get_unique_words_all_tokens(s) == split(s)

\* get_unique_words
get_unique_words(s) == unique_loop(split(s), 1, {}, <<>>)

\* anagram_dict[key].append(word) on a dict kept as the sequence of its
\* items in insertion order
dict_append(d, key, word) ==
  IF \E k \in 1..Len(d) : d[k].key = key
    THEN [k \in 1..Len(d) |->
            IF d[k].key = key
              THEN [key |-> key, group |-> Append(d[k].group, word)]
              ELSE d[k]]
    ELSE Append(d, [key |-> key, group |-> <<word>>])

\* the first loop of group_anagrams
RECURSIVE build_dict(_, _, _)
build_dict(ws, i, d) ==
  IF i > Len(ws) THEN d
  ELSE build_dict(ws, i + 1, dict_append(d, normalize_word(ws[i]), ws[i]))

\* the second loop of group_anagrams
RECURSIVE filter_groups(_, _)
filter_groups(d, k) ==
  IF k > Len(d) THEN <<>>
  ELSE IF Len(d[k].group) > 1
    THEN <<sorted_strs(d[k].group)>> \o filter_groups(d, k + 1)
  ELSE filter_groups(d, k + 1)

\* the second loop appending group in place of sorted(group)
RECURSIVE filter_groups_unsorted(_, _)
filter_groups_unsorted(d, k) ==
  IF k > Len(d) THEN <<>>
  ELSE IF Len(d[k].group) > 1
    THEN <<d[k].group>> \o filter_groups_unsorted(d, k + 1)
  ELSE filter_groups_unsorted(d, k + 1)

\* group_anagrams without sorted(group)
group_anagrams_members_unsorted(ws) ==
  IF ws = <<>> THEN <<>>
  ELSE sort_by_first(filter_groups_unsorted(build_dict(ws, 1, <<>>), 1))

\* group_anagrams without result.sort
group_anagrams_groups_unsorted(ws) ==
  IF ws = <<>> THEN <<>>
  ELSE filter_groups(build_dict(ws, 1, <<>>), 1)

\* group_anagrams
group_anagrams(ws) ==
  IF ws = <<>> THEN <<>>
  ELSE sort_by_first(filter_groups(build_dict(ws, 1, <<>>), 1))

\* Python values
PyStr(s) == [type |-> "str", items |-> s, num |-> 0]
PyInt(n) == [type |-> "int", items |-> <<>>, num |-> n]
PyList(s) == [type |-> "list", items |-> s, num |-> 0]
PyNone == [type |-> "NoneType", items |-> <<>>, num |-> 0]

\* the types on which text[:50] and len(text) of line 142 work
Subscriptable(v) == v.type \in {"str", "list"}

\* Python truth value
Truthy(v) ==
  IF v.type \in {"str", "list"} THEN v.items # <<>>
  ELSE IF v.type = "int" THEN v.num # 0
  ELSE FALSE

\* find_anagrams_in_text, with the decorator log_function_call re-raising
\* what the body raises: the locals at exit and the outcome
find_anagrams_in_text(v) ==
  LET none == [pc |-> "", cleaned_text |-> <<>>, words |-> <<>>,
               anagram_groups |-> <<>>, result |-> <<>>, raised |-> ""]
  IN
  IF ~Subscriptable(v)
    THEN [none EXCEPT !.pc = "raise142", !.raised = "TypeError"]
  ELSE IF ~Truthy(v)
    THEN [none EXCEPT !.pc = "return147"]
  ELSE IF v.type # "str"
    THEN [none EXCEPT !.pc = "return151"]
  ELSE
    LET c == clean_text(v.items)
        w == get_unique_words(c)
        g == group_anagrams(w)
    IN [pc |-> "return175", cleaned_text |-> c, words |-> w,
        anagram_groups |-> g, result |-> g, raised |-> ""]

---------------------------------------------------------------------------
(* Inputs *)

\* characters of the raw texts: space, tab, '!', 'A', 'a', 'b', 'Ё'
Chars == {32, 9, 33, 65, 97, 98, 1025}

RECURSIVE SeqsUpTo(_, _)
SeqsUpTo(S, n) ==
  IF n = 0 THEN {<<>>}
  ELSE LET shorter == SeqsUpTo(S, n - 1)
       IN shorter \cup {Append(s, x) : s \in {t \in shorter : Len(t) = n - 1}, x \in S}

RawTexts == SeqsUpTo(Chars, MaxLen)

\* words over a, b: a, ab, ba, aab, aba, baa, bb
Vocabulary ==
  { <<97>>, <<97, 98>>, <<98, 97>>, <<97, 97, 98>>, <<97, 98, 97>>,
    <<98, 97, 97>>, <<98, 98>> }

WordLists == SeqsUpTo(Vocabulary, MaxWords)

\* ' '.join(ws)
RECURSIVE join(_)
join(ws) ==
  IF ws = <<>> THEN <<>>
  ELSE IF Len(ws) = 1 THEN ws[1]
  ELSE ws[1] \o <<32>> \o join(Tail(ws))

\* "кот ток кто"
KotTokKto == <<1082, 1086, 1090, 32, 1090, 1086, 1082, 32, 1082, 1090, 1086>>
\* "listen silent"
ListenSilent == <<108, 105, 115, 116, 101, 110, 32, 115, 105, 108, 101, 110, 116>>
\* "Азора роза"
AzoraRoza == <<1040, 1079, 1086, 1088, 1072, 32, 1088, 1086, 1079, 1072>>
\* "кот ток кто отк тко"
KotFive ==
  <<1082, 1086, 1090, 32, 1090, 1086, 1082, 32, 1082, 1090, 1086, 32,
    1086, 1090, 1082, 32, 1090, 1082, 1086>>
\* "cat bat tac"
CatBatTac == <<99, 97, 116, 32, 98, 97, 116, 32, 116, 97, 99>>
\* "Cat! tac, DOG"
CatTacDog == <<67, 97, 116, 33, 32, 116, 97, 99, 44, 32, 68, 79, 71>>
\* "a b c"
ABC == <<97, 32, 98, 32, 99>>
\* "кот ток кто отк тко. listen silent enlist. Азора роза."
TestText ==
  <<1082, 1086, 1090, 32, 1090, 1086, 1082, 32, 1082, 1090, 1086, 32,
    1086, 1090, 1082, 32, 1090, 1082, 1086, 46, 32, 108, 105, 115, 116,
    101, 110, 32, 115, 105, 108, 101, 110, 116, 32, 101, 110, 108, 105,
    115, 116, 46, 32, 1040, 1079, 1086, 1088, 1072, 32, 1088, 1086, 1079,
    1072, 46>>

\* test_texts of the test run
test_texts == {PyStr(KotTokKto), PyStr(ListenSilent), PyStr(AzoraRoza), PyStr(<<>>), PyInt(123)}

\* other values a caller hands over
OtherValues ==
  {PyStr(KotFive), PyStr(CatBatTac), PyStr(CatTacDog), PyStr(ABC), PyStr(TestText),
   PyNone, PyInt(0), PyList(<<>>), PyList(<<97, 98>>)}

---------------------------------------------------------------------------
(* State machine: a caller holds an argument (pc = "call"), the called   *)
(* function runs to its exit and pc names the line it left at.            *)

\* the callers and the arguments they pass
Init ==
  /\ pc = "call"
  /\ cleaned_text = <<>>
  /\ anagram_groups = <<>>
  /\ result = <<>>
  /\ raised = ""
  /\ \/ /\ op = "main"
        /\ text \in {PyStr(strip(join(ws))) : ws \in WordLists}
        /\ words = <<>>
     \/ /\ op = "argv"
        /\ text \in {PyStr(s) : s \in RawTexts}
        /\ words = <<>>
     \/ /\ op = "test"
        /\ text \in test_texts
        /\ words = <<>>
     \/ /\ op = "import"
        /\ text \in OtherValues
        /\ words = <<>>
     \/ /\ op = "clean_text"
        /\ text \in {PyStr(s) : s \in RawTexts}
        /\ words = <<>>
     \/ /\ op = "group_anagrams"
        /\ text = PyNone
        /\ words \in WordLists

\* one call of find_anagrams_in_text(text), run to its exit
Call ==
  LET r == find_anagrams_in_text(text) IN
  /\ pc = "call"
  /\ cleaned_text' = r.cleaned_text
  /\ words' = r.words
  /\ anagram_groups' = r.anagram_groups
  /\ result' = r.result
  /\ raised' = r.raised
  /\ pc' = r.pc
  /\ UNCHANGED <<op, text>>

\* main(): anagrams = find_anagrams_in_text(text), text as stripped by
\* get_user_input
MainCall == op = "main" /\ Call

\* the command line: find_anagrams_in_text(' '.join(sys.argv[1:])), any text
ArgvCall == op = "argv" /\ Call

\* the test run over test_texts
TestCall == op = "test" /\ Call

\* a caller importing the module
DirectCall == op = "import" /\ Call

\* a caller of clean_text(text)
CleanCall ==
  /\ op = "clean_text"
  /\ pc = "call"
  /\ cleaned_text' = clean_text(text.items)
  /\ pc' = IF text.items = <<>> THEN "return184" ELSE "return194"
  /\ UNCHANGED <<op, text, words, anagram_groups, result, raised>>

\* a caller of group_anagrams(words)
GroupCall ==
  /\ op = "group_anagrams"
  /\ pc = "call"
  /\ result' = group_anagrams(words)
  /\ pc' = IF words = <<>> THEN "return242" ELSE "return259"
  /\ UNCHANGED <<op, text, cleaned_text, words, anagram_groups, raised>>

Next ==
  MainCall \/ ArgvCall \/ TestCall \/ DirectCall \/ CleanCall \/ GroupCall

Spec == Init /\ [][Next]_vars

---------------------------------------------------------------------------
(* Vocabulary of the properties, defined without the functions above *)

Range(f) == {f[i] : i \in DOMAIN f}

\* find_anagrams_in_text has been called and has left (returned or raised)
FindLeft == op \in {"main", "argv", "test", "import"} /\ pc # "call"

\* group_anagrams has been called and has returned
GroupReturned == op = "group_anagrams" /\ pc \in {"return242", "return259"}

\* clean_text has been called and has returned
CleanReturned == op = "clean_text" /\ pc \in {"return184", "return194"}

\* u precedes v in lexicographic code point order
RECURSIVE LexLess(_, _)
LexLess(u, v) ==
  IF v = <<>> THEN FALSE
  ELSE IF u = <<>> THEN TRUE
  ELSE IF Head(u) # Head(v) THEN Head(u) < Head(v)
  ELSE LexLess(Tail(u), Tail(v))

\* number of occurrences of c in w
Count(c, w) == Cardinality({i \in 1..Len(w) : w[i] = c})

\* u is a rearrangement of the letters of v
IsPermutation(u, v) ==
  /\ Len(u) = Len(v)
  /\ \A c \in Range(u) \cup Range(v) : Count(c, u) = Count(c, v)

\* s[a..b] is a maximal run of characters satisfying Keep
IsRun(s, a, b, Keep(_)) ==
  /\ 1 <= a /\ a <= b /\ b <= Len(s)
  /\ \A i \in a..b : Keep(s[i])
  /\ a = 1 \/ ~Keep(s[a - 1])
  /\ b = Len(s) \/ ~Keep(s[b + 1])

IsLetter(c) == c \in LowerLetters \cup UpperLetters
NonSpace(c) == c \notin Whitespace

\* the maximal runs of letters of a raw text, lowercased
LetterRuns(s) ==
  {lower(SubSeq(s, ab[1], ab[2])) :
     ab \in {x \in (1..Len(s)) \X (1..Len(s)) : IsRun(s, x[1], x[2], IsLetter)}}

\* the whitespace-separated tokens of a text
Tokens(s) ==
  {SubSeq(s, ab[1], ab[2]) :
     ab \in {x \in (1..Len(s)) \X (1..Len(s)) : IsRun(s, x[1], x[2], NonSpace)}}

\* where the token w first starts in s
FirstPos(w, s) ==
  CHOOSE a \in 1..Len(s) :
    /\ \E b \in a..Len(s) : IsRun(s, a, b, NonSpace) /\ SubSeq(s, a, b) = w
    /\ \A a2 \in 1..(a - 1) :
         ~\E b \in a2..Len(s) : IsRun(s, a2, b, NonSpace) /\ SubSeq(s, a2, b) = w

---------------------------------------------------------------------------
(* Claims *)

\* C1: find_anagrams_in_text called with an input that is not a string
\* (123, None) returns an empty list and raises nothing.
C1_NonStringReturnsEmpty ==
  (FindLeft /\ text.type # "str") => (raised = "" /\ result = <<>>)

\* C2: for every string input every group of the result has at least 2
\* members, no word is in two groups and no group holds a word twice.
C2_GroupsDisjoint ==
  (FindLeft /\ text.type = "str") =>
    /\ raised = ""
    /\ \A i \in 1..Len(result) : Len(result[i]) >= 2
    /\ \A i, j \in 1..Len(result) :
         \A a \in 1..Len(result[i]), b \in 1..Len(result[j]) :
           result[i][a] = result[j][b] => (i = j /\ a = b)

\* a text in which a grouped word is typed twice
C2_Witness ==
  /\ FindLeft /\ text.type = "str" /\ pc = "return175"
  /\ Len(result) >= 1
  /\ \E w \in Range(result[1]) :
       Cardinality({ab \in (1..Len(text.items)) \X (1..Len(text.items)) :
                      /\ IsRun(text.items, ab[1], ab[2], NonSpace)
                      /\ SubSeq(text.items, ab[1], ab[2]) = w}) >= 2

\* C3: for every string input the words of each group ascend in code point
\* order and the groups ascend by their first member, no two groups
\* sharing a first member.
C3_Ordered ==
  (FindLeft /\ text.type = "str") =>
    /\ \A i \in 1..Len(result) :
         \A a, b \in 1..Len(result[i]) :
           a < b => LexLess(result[i][a], result[i][b])
    /\ \A i, j \in 1..Len(result) :
         i < j => LexLess(result[i][1], result[j][1])

\* two groups, found in the text in the opposite order
C3_Witness ==
  /\ FindLeft /\ text.type = "str" /\ pc = "return175"
  /\ Len(result) >= 2
  /\ \E a, b \in 1..Len(words) :
       /\ a < b
       /\ words[a] \in Range(result[2])
       /\ words[b] \in Range(result[1])
  /\ \E i \in 1..Len(result) : Len(result[i]) >= 3

\* the sequence ws rearranged by p
Permuted(ws, p) == [i \in 1..Len(ws) |-> ws[p[i]]]

\* C4: group_anagrams returns the same list of groups, in the same order,
\* for a word sequence and for every permutation of it.
C4_PermutationInvariant ==
  GroupReturned =>
    \A p \in Permutations(1..Len(words)) :
      group_anagrams(Permuted(words, p)) = result

\* a sequence of four distinct words giving two groups
C4_Witness ==
  /\ GroupReturned
  /\ Len(words) = MaxWords
  /\ Cardinality(Range(words)) = Len(words)
  /\ Len(result) >= 2

Kot == <<1082, 1086, 1090>>
Kto == <<1082, 1090, 1086>>
Otk == <<1086, 1090, 1082>>
Tko == <<1090, 1082, 1086>>
Tok == <<1090, 1086, 1082>>

\* C5 as claimed: "кот ток кто отк тко" gives the one group
\* ["кот","кто","ток","тко","отк"].
C5_AsClaimed ==
  (FindLeft /\ text = PyStr(KotFive)) =>
    result = << <<Kot, Kto, Tok, Tko, Otk>> >>

\* C5 amended: "кот ток кто отк тко" gives the one group
\* ["кот","кто","отк","тко","ток"], its words in code point order.
C5_SortedGroup ==
  (FindLeft /\ text = PyStr(KotFive)) =>
    (raised = "" /\ result = << <<Kot, Kto, Otk, Tko, Tok>> >>)

C5_Witness ==
  /\ FindLeft /\ text = PyStr(KotFive) /\ pc = "return175"
  /\ Len(result) = 1

\* the distinct lowercased words of length at least 2 of the text
TextWords(s) == {w \in LetterRuns(s) : Len(w) >= 2}

Cat == <<99, 97, 116>>
Tac == <<116, 97, 99>>

\* C6: for every string input the groups are exactly the maximal anagram
\* classes of size at least 2 among the distinct lowercased words of length
\* at least 2 of the text; "cat bat tac" and "Cat! tac, DOG" give
\* [["cat","tac"]].
C6_MaximalClasses ==
  (FindLeft /\ text.type = "str") =>
    LET W == TextWords(text.items) IN
    /\ raised = ""
    /\ \A i \in 1..Len(result) :
         /\ Range(result[i]) \subseteq W
         /\ \A w \in W :
              w \in Range(result[i]) <=> IsPermutation(w, result[i][1])
    /\ \A w \in W :
         (\E v \in W : v # w /\ IsPermutation(v, w))
           <=> (\E i \in 1..Len(result) : w \in Range(result[i]))
    /\ text.items \in {CatBatTac, CatTacDog} => result = << <<Cat, Tac>> >>

\* a text with a group, a word outside every group and a word that is no
\* anagram of the group
C6_Witness ==
  /\ FindLeft /\ text.type = "str" /\ pc = "return175"
  /\ Len(result) >= 1
  /\ \E w \in TextWords(text.items) :
       \A i \in 1..Len(result) : w \notin Range(result[i])
  /\ Len(result[1]) >= 3

\* C7: find_anagrams_in_text returns the empty list, raising nothing, for
\* the empty string, for a whitespace-only string and for a text whose
\* tokens after cleaning all have length 1.
C7_EmptyResult ==
  (/\ FindLeft
   /\ text.type = "str"
   /\ \/ text.items = <<>>
      \/ \A i \in 1..Len(text.items) : text.items[i] \in Whitespace
      \/ \A w \in LetterRuns(text.items) : Len(w) = 1)
    => (raised = "" /\ result = <<>>)

\* a text of several one-letter tokens, like "a b c"
C7_Witness ==
  /\ FindLeft /\ text.type = "str" /\ pc = "return175"
  /\ Cardinality(LetterRuns(text.items)) >= 3
  /\ \A w \in LetterRuns(text.items) : Len(w) = 1
  /\ result = <<>>

\* C8: clean_text(x) holds only lowercase letters of the two alphabets and
\* whitespace, has no leading or trailing whitespace, and is a fixed point
\* of clean_text.
C8_CleanIdempotent ==
  CleanReturned =>
    /\ \A i \in 1..Len(cleaned_text) :
         cleaned_text[i] \in LowerLetters \cup Whitespace
    /\ cleaned_text # <<>> =>
         /\ cleaned_text[1] \notin Whitespace
         /\ cleaned_text[Len(cleaned_text)] \notin Whitespace
    /\ clean_text(cleaned_text) = cleaned_text

\* a text that cleaning changes in every way: case, punctuation, both ends
C8_Witness ==
  /\ CleanReturned /\ pc = "return194"
  /\ text.items[1] \in Whitespace
  /\ text.items[Len(text.items)] \in Whitespace
  /\ \E i \in 1..Len(text.items) : text.items[i] \in UpperLetters
  /\ \E i \in 1..Len(text.items) : text.items[i] \notin KeptByPattern
  /\ cleaned_text # <<>>

\* C9: get_unique_words returns each whitespace-separated token of length
\* at least 2 of the cleaned text exactly once, no token of length 0 or 1,
\* in the order of first occurrence.
C9_UniqueWords ==
  (FindLeft /\ pc = "return175") =>
    /\ Range(words) = {t \in Tokens(cleaned_text) : Len(t) >= 2}
    /\ \A i, j \in 1..Len(words) : words[i] = words[j] => i = j
    /\ \A i, j \in 1..Len(words) :
         i < j => FirstPos(words[i], cleaned_text) < FirstPos(words[j], cleaned_text)

\* a cleaned text with a repeated word, a one-letter token and two words
C9_Witness ==
  /\ FindLeft /\ pc = "return175"
  /\ Len(words) >= 2
  /\ \E t \in Tokens(cleaned_text) : Len(t) = 1
  /\ Len(split(cleaned_text)) > Len(words) + 1

\* C10: for every word sequence passed to group_anagrams, repeated words
\* included, every bucket of the result has 2 or more distinct words.
C10_DistinctWords ==
  GroupReturned =>
    \A i \in 1..Len(result) : Cardinality(Range(result[i])) >= 2

=============================================================================
